---- MODULE Spec2Model ----
(***************************************************************************)
(* Cerebot's Discord bridge (cerebot/discord.py): the command rate         *)
(* limiter, the connection lifecycle (start, keepalive loop, disconnect),  *)
(* vanity role discovery with the role commands, the per-command           *)
(* permission rule of the channel adapter,                                 *)
(* inbound message handling, source lookup, the relay command and the      *)
(* outbound message sanitizer.                                             *)
(*                                                                         *)
(* Each component has its own specification (SpecRate, SpecConn,           *)
(* SpecRoles, SpecPerm, SpecReady, SpecMsg, SpecIdent, SpecSay, SpecSend); *)
(* the variables of the other components stay at their constructed values. *)
(***************************************************************************)
EXTENDS Integers, Sequences, FiniteSets, TLC

VARIABLES
    \* ---- configuration (DiscordManager.conf)
    command_period,   \* conf["command_period"]
    command_limit,    \* conf["command_limit"]
    fake_connect,     \* conf.get("fake_connect")
    \* ---- rate limiter
    now,              \* the value time.time() returns
    message_times,    \* DiscordManager.message_times
    calls,            \* history of handle_timeout calls: time and result
    pre_times,        \* message_times as the last call found it
    chan_outcome,     \* how the last DiscordChannel.handle_timeout ended
    chan_rejects,     \* DiscordChannel.handle_timeout calls the limiter rejected
    info_log,         \* number of info-level log entries emitted
    \* ---- connection manager
    is_closed,        \* discord.Client.is_closed
    shutdown,         \* DiscordManager.shutdown
    ping_task,        \* DiscordManager.ping_task (0 is None, else a task id)
    tasks,            \* the start_ping tasks created so far
    discs,            \* the disconnect() coroutines created so far
    start_pc,         \* position of the start() coroutine
    shutdown_seen,    \* a disconnect(shutdown=True) has set the flag
    \* ---- channel adapter, roles and commands
    server,           \* the server of the channel (roles, me, default role)
    is_private,       \* channel.is_private
    cmd,              \* the last command / adapter call and its outcome
    sent,             \* messages handed to send_chat
    granted,          \* roles handed to manager.add_roles / remove_roles
    \* ---- inbound events, backend tables, outbound payloads
    is_logged_in,     \* discord.Client.is_logged_in
    events,           \* the on_message coroutines created so far
    backend,          \* what the client exposes: its channels and servers
    forwarded,        \* calls of manager.send_message: destination, payload
    idents,           \* identities get_source_ident has handed out
    lookup            \* the last get_source_by_ident call and its result

confVars == <<command_period, command_limit, fake_connect>>
rateVars == <<now, message_times, calls, pre_times, chan_outcome, chan_rejects,
              info_log>>
connVars == <<is_closed, shutdown, ping_task, tasks, discs, start_pc,
              shutdown_seen>>
roleVars == <<server, is_private, cmd, sent, granted>>
extVars == <<is_logged_in, events, backend, forwarded, idents, lookup>>
vars == <<confVars, rateVars, connVars, roleVars, extVars>>

-----------------------------------------------------------------------------
\* Bounds of the model.
MaxPeriod == 3
MaxLimit == 2
MaxTime == 6
MaxCalls == 4

Min(a, b) == IF a <= b THEN a ELSE b

-----------------------------------------------------------------------------
\* Constructed values of each component (DiscordManager.__init__).

RateIdle ==
    /\ now = 0
    /\ message_times = <<>>
    /\ calls = <<>>
    /\ pre_times = <<>>
    /\ chan_outcome = "none"
    /\ chan_rejects = 0
    /\ info_log = 0

ConnIdle ==
    /\ is_closed = FALSE
    /\ shutdown = FALSE
    /\ ping_task = 0
    /\ tasks = <<>>
    /\ discs = <<>>
    /\ start_pc = "idle"
    /\ shutdown_seen = FALSE

NoBackend == [channels |-> {}, servers |-> <<>>]
NoLookup == [called |-> FALSE]

ExtIdle ==
    /\ is_logged_in = FALSE
    /\ events = <<>>
    /\ backend = NoBackend
    /\ forwarded = <<>>
    /\ idents = {}
    /\ lookup = NoLookup

\* The value of a returned role list: None, or a list of roles (each role
\* is named by its index in server.roles).
None == [is_none |-> TRUE, roles |-> <<>>]
List(rs) == [is_none |-> FALSE, roles |-> rs]

NoServer == [roles |-> <<>>, me |-> {}]
NoCmd == [op |-> "none", arg |-> "", outcome |-> "none", ret |-> None,
          allowed |-> TRUE, reason |-> "", generic_calls |-> 0,
          generic |-> [allowed |-> TRUE, reason |-> ""],
          user_roles |-> {}, user |-> ""]

RolesIdle ==
    /\ server = NoServer
    /\ is_private = FALSE
    /\ cmd = NoCmd
    /\ sent = <<>>
    /\ granted = <<>>

-----------------------------------------------------------------------------
\* Rate limiter: DiscordManager.handle_timeout.

\* list.remove(x): drops the first element equal to x.
ListRemove(s, x) ==
    IF \E i \in 1..Len(s) : s[i] = x
    THEN LET i == CHOOSE k \in 1..Len(s) :
                      s[k] = x /\ \A j \in 1..(k - 1) : s[j] # x
         IN  SubSeq(s, 1, i - 1) \o SubSeq(s, i + 1, Len(s))
    ELSE s

\* The test of line 229: the timestamp has left the window.
ExpiredNeverMutant(current_time, timestamp) == FALSE
Expired(current_time, timestamp) ==
    current_time - timestamp >= command_period

\* The loop of lines 228-230 over a copy of the list, from index i on.
RECURSIVE PruneFrom(_, _, _, _)
PruneFrom(copy, i, times, current_time) ==
    IF i > Len(copy) THEN times
    ELSE PruneFrom(copy, i + 1,
                   IF Expired(current_time, copy[i])
                   THEN ListRemove(times, copy[i]) ELSE times,
                   current_time)

\* The test of line 231: the window is full.
WindowFullOffByOneMutant(times) == Len(times) > command_limit
WindowFull(times) == Len(times) >= command_limit

\* handle_timeout as a function of the list and the clock: the new list and
\* the returned flag (TRUE: the command is to be ignored).
ManagerRecordsRejectedMutant(times, current_time) ==
    LET pruned == PruneFrom(times, 1, times, current_time)
    IN  [times |-> Append(pruned, current_time), ret |-> WindowFull(pruned)]
Manager_handle_timeout(times, current_time) ==
    LET pruned == PruneFrom(times, 1, times, current_time)
    IN  IF WindowFull(pruned)
        THEN [times |-> pruned, ret |-> TRUE]
        ELSE [times |-> Append(pruned, current_time), ret |-> FALSE]

\* time.time() advances between calls.
Tick ==
    /\ \E d \in 1..MaxPeriod + 1 :
          /\ now + d <= MaxTime
          /\ now' = now + d
    /\ UNCHANGED <<message_times, calls, pre_times, chan_outcome, chan_rejects,
                   info_log>>
    /\ UNCHANGED <<confVars, extVars, connVars, roleVars>>

\* A direct call of DiscordManager.handle_timeout.
DiscordManager_handle_timeout ==
    /\ Len(calls) < MaxCalls
    /\ LET r == Manager_handle_timeout(message_times, now)
       IN  /\ message_times' = r.times
           /\ calls' = Append(calls, [t |-> now, ret |-> r.ret])
           /\ pre_times' = message_times
    /\ UNCHANGED <<now, chan_outcome, chan_rejects, info_log>>
    /\ UNCHANGED <<confVars, extVars, connVars, roleVars>>

\* Names the body of DiscordChannel.handle_timeout reads when it builds the
\* arguments of _log.info (lines 96-98), the names bound in the method, and
\* the names bound at module level (lines 3-19, 27, 134, 238-409).
LogArgNames == {"_log", "self", "sender", "message"}
MethodLocals == {"self"}
ModuleGlobals ==
    {"asyncio", "ensure_future", "ChatWatcher", "bot_help_command", "discord",
     "logging", "os", "re", "signal", "time", "Version", "_log", "_url_regexp",
     "DiscordChannel", "DiscordManager", "bot_version_command",
     "bot_debugmode_command", "bot_listroles_command", "bot_addrole_command",
     "bot_removerole_command", "bot_glasses_command", "bot_deal_command",
     "bot_dance_command", "bot_zxcdance_command", "bot_say_command",
     "bot_commands"}
UnboundLogNames == LogArgNames \ (MethodLocals \cup ModuleGlobals)

\* DiscordChannel.handle_timeout: consult the manager's limiter; on a
\* rejection evaluate the arguments of _log.info, which raises NameError when
\* one of them is unbound, and only then log and return True.
DiscordChannel_handle_timeout ==
    /\ Len(calls) < MaxCalls
    /\ LET r == Manager_handle_timeout(message_times, now)
       IN  /\ message_times' = r.times
           /\ calls' = Append(calls, [t |-> now, ret |-> r.ret])
           /\ pre_times' = message_times
           /\ IF r.ret
              THEN /\ chan_rejects' = chan_rejects + 1
                   /\ IF UnboundLogNames # {}
                      THEN /\ chan_outcome' = "NameError"
                           /\ info_log' = info_log
                      ELSE /\ chan_outcome' = "True"
                           /\ info_log' = info_log + 1
              ELSE /\ chan_rejects' = chan_rejects
                   /\ chan_outcome' = "False"
                   /\ info_log' = info_log
    /\ UNCHANGED now
    /\ UNCHANGED <<confVars, extVars, connVars, roleVars>>

InitRate ==
    /\ command_period \in 1..MaxPeriod
    /\ command_limit \in 0..MaxLimit
    /\ fake_connect = FALSE
    /\ RateIdle /\ ConnIdle /\ RolesIdle /\ ExtIdle

NextRate ==
    \/ Tick
    \/ DiscordManager_handle_timeout
    \/ DiscordChannel_handle_timeout

SpecRate == InitRate /\ [][NextRate]_vars

-----------------------------------------------------------------------------
\* Connection manager: start, on_ready, start_ping, disconnect.

MaxTasks == 1
MaxDiscs == 2
MaxPings == 2

\* Exceptions the backend calls (login, connect, ws.ping, close) can raise;
\* all are subclasses of Exception.
BackendErrors == {"ConnectionClosed", "HTTPException"}

NewTask == [pc |-> "start", cancel |-> FALSE, pings |-> 0, failed |-> FALSE,
            logged |-> 0, disc_req |-> 0, cancelled_at |-> "none"]

\* start(): the caller's coroutine enters login (line 204).
Start_call ==
    /\ start_pc = "idle"
    /\ start_pc' = "login"
    /\ UNCHANGED <<is_closed, shutdown, ping_task, tasks, discs,
                   shutdown_seen>>
    /\ UNCHANGED <<confVars, extVars, rateVars, roleVars>>

\* Where start() goes when login or connect raises e: lines 202-205 hold no
\* try statement, so the exception leaves start() to its caller.
StartAfterError(e) == "raised"

\* login succeeds: start() goes on to connect (line 205).
LoginReturns ==
    /\ start_pc = "login"
    /\ start_pc' = "connect"
    /\ UNCHANGED <<is_closed, shutdown, ping_task, tasks, discs,
                   shutdown_seen>>
    /\ UNCHANGED <<confVars, extVars, rateVars, roleVars>>

\* login raises.
LoginRaises ==
    /\ start_pc = "login"
    /\ \E e \in BackendErrors : start_pc' = StartAfterError(e)
    /\ UNCHANGED <<is_closed, shutdown, ping_task, tasks, discs,
                   shutdown_seen>>
    /\ UNCHANGED <<confVars, extVars, rateVars, roleVars>>

\* connect raises.
ConnectRaises ==
    /\ start_pc = "connect"
    /\ \E e \in BackendErrors : start_pc' = StartAfterError(e)
    /\ UNCHANGED <<is_closed, shutdown, ping_task, tasks, discs,
                   shutdown_seen>>
    /\ UNCHANGED <<confVars, extVars, rateVars, roleVars>>

\* connect returns once the client is closed.
ConnectReturns ==
    /\ start_pc = "connect"
    /\ is_closed
    /\ start_pc' = "returned"
    /\ UNCHANGED <<is_closed, shutdown, ping_task, tasks, discs,
                   shutdown_seen>>
    /\ UNCHANGED <<confVars, extVars, rateVars, roleVars>>

\* on_ready (lines 180-182): the backend's ready signal, delivered while
\* connect() runs; a new start_ping task is created and kept in ping_task.
\* At most max tasks are created.
OnReady(max) ==
    /\ start_pc = "connect"
    /\ ~is_closed
    /\ Len(tasks) < max
    /\ tasks' = Append(tasks, NewTask)
    /\ ping_task' = Len(tasks) + 1
    /\ UNCHANGED <<is_closed, shutdown, discs, start_pc,
                   shutdown_seen>>
    /\ UNCHANGED <<confVars, extVars, rateVars, roleVars>>

On_ready == OnReady(MaxTasks)

Running(t) == tasks[t].pc \in {"start", "ping", "sleep"}

\* start_ping, loop head (lines 155-157): the client is closed, return.
PingLoopSeesClosed(t) ==
    /\ tasks[t].pc \in {"start", "sleep"}
    /\ ~tasks[t].cancel
    /\ is_closed
    /\ tasks' = [tasks EXCEPT ![t].pc = "done"]
    /\ UNCHANGED <<is_closed, shutdown, ping_task, discs, start_pc,
                   shutdown_seen>>
    /\ UNCHANGED <<confVars, extVars, rateVars, roleVars>>

\* start_ping, lines 155-160: not closed, send a ping and wait for it.
PingLoopSendsPing(t) ==
    /\ tasks[t].pc \in {"start", "sleep"}
    /\ ~tasks[t].cancel
    /\ ~is_closed
    /\ tasks[t].pings < MaxPings
    /\ tasks' = [tasks EXCEPT ![t].pc = "ping", ![t].pings = @ + 1]
    /\ UNCHANGED <<is_closed, shutdown, ping_task, discs, start_pc,
                   shutdown_seen>>
    /\ UNCHANGED <<confVars, extVars, rateVars, roleVars>>

\* ws.ping() returns: sleep 10 seconds (line 170).
PingReturns(t) ==
    /\ tasks[t].pc = "ping"
    /\ ~tasks[t].cancel
    /\ tasks' = [tasks EXCEPT ![t].pc = "sleep"]
    /\ UNCHANGED <<is_closed, shutdown, ping_task, discs, start_pc,
                   shutdown_seen>>
    /\ UNCHANGED <<confVars, extVars, rateVars, roleVars>>

\* Where the loop goes after the handler of lines 165-168: it returns.
AfterPingFailureLoopsMutant == "sleep"
AfterPingFailure == "done"

\* ws.ping() raises an Exception (lines 165-168): log it, schedule
\* disconnect() with ensure_future, return.
PingRaises(t) ==
    /\ tasks[t].pc = "ping"
    /\ ~tasks[t].cancel
    /\ Len(discs) < MaxDiscs
    /\ \E e \in BackendErrors :
          /\ discs' = Append(discs, [shutdown |-> FALSE, pc |-> "scheduled",
                                     err |-> "none", logged |-> FALSE,
                                     by |-> t])
          /\ tasks' = [tasks EXCEPT ![t].pc = AfterPingFailure,
                                    ![t].failed = TRUE,
                                    ![t].logged = @ + 1,
                                    ![t].disc_req = @ + 1]
    /\ UNCHANGED <<is_closed, shutdown, ping_task, start_pc, shutdown_seen>>
    /\ UNCHANGED <<confVars, extVars, rateVars, roleVars>>

\* What the loop does with a CancelledError raised in ws.ping(): the clause
\* of lines 162-163 comes before the generic handler and returns.
OnCancelInPingGenericHandlerMutant == "log_and_disconnect"
OnCancelInPing == "return"

\* A cancelled task gets CancelledError where it is suspended: in ws.ping()
\* it is caught and the loop returns (lines 162-163); in asyncio.sleep, or
\* before the first step, it ends the task.
PingTaskCancelled(t) ==
    /\ Running(t)
    /\ tasks[t].cancel
    /\ IF tasks[t].pc = "ping" /\ OnCancelInPing # "return"
       THEN /\ discs' = Append(discs, [shutdown |-> FALSE, pc |-> "scheduled",
                                       err |-> "none", logged |-> FALSE,
                                       by |-> t])
            /\ tasks' = [tasks EXCEPT ![t].pc = "done",
                                      ![t].logged = @ + 1,
                                      ![t].disc_req = @ + 1]
       ELSE /\ discs' = discs
            /\ tasks' = [tasks EXCEPT ![t].pc = "done"]
    /\ UNCHANGED <<is_closed, shutdown, ping_task, start_pc,
                   shutdown_seen>>
    /\ UNCHANGED <<confVars, extVars, rateVars, roleVars>>

\* disconnect, lines 214-215: cancel the keepalive task if it is not done.
CancelPingTask ==
    IF ping_task # 0 /\ tasks[ping_task].pc # "done"
    THEN [tasks EXCEPT ![ping_task].cancel = TRUE,
                       ![ping_task].cancelled_at =
                           IF tasks[ping_task].cancel THEN @
                           ELSE tasks[ping_task].pc]
    ELSE tasks

\* disconnect, lines 217-218: return at once in fake_connect mode or when
\* the client is closed; otherwise go on to close().
AfterClosedCheck == IF fake_connect \/ is_closed THEN "done" ELSE "closing"

\* disconnect, line 222: the handler catches every Exception.
DisconnectCatchesOnlyHTTPMutant(e) == e = "HTTPException"
DisconnectCatches(e) == e \in BackendErrors

\* A caller runs disconnect(shutdown=sd) up to its first suspension.
Disconnect_call(sd) ==
    /\ Len(discs) < MaxDiscs
    /\ tasks' = CancelPingTask
    /\ discs' = Append(discs, [shutdown |-> sd, pc |-> AfterClosedCheck,
                               err |-> "none", logged |-> FALSE, by |-> 0])
    /\ UNCHANGED <<is_closed, shutdown, ping_task, start_pc,
                   shutdown_seen>>
    /\ UNCHANGED <<confVars, extVars, rateVars, roleVars>>

\* The disconnect() the keepalive loop scheduled starts to run.
Disconnect_scheduled_runs(i) ==
    /\ discs[i].pc = "scheduled"
    /\ tasks' = CancelPingTask
    /\ discs' = [discs EXCEPT ![i].pc = AfterClosedCheck]
    /\ UNCHANGED <<is_closed, shutdown, ping_task, start_pc,
                   shutdown_seen>>
    /\ UNCHANGED <<confVars, extVars, rateVars, roleVars>>

\* close() returns (line 221), the client is closed; line 224 stores the
\* shutdown argument.
CloseReturns(i) ==
    /\ discs[i].pc = "closing"
    /\ is_closed' = TRUE
    /\ shutdown' = discs[i].shutdown
    /\ shutdown_seen' = (shutdown_seen \/ discs[i].shutdown)
    /\ discs' = [discs EXCEPT ![i].pc = "done"]
    /\ UNCHANGED <<ping_task, tasks, start_pc>>
    /\ UNCHANGED <<confVars, extVars, rateVars, roleVars>>

\* close() raises e (lines 222-224): when the handler catches it, it is
\* logged and line 224 stores the shutdown argument; otherwise it leaves
\* disconnect(). The client may or may not count as closed afterwards.
CloseRaises(i) ==
    /\ discs[i].pc = "closing"
    /\ \E e \in BackendErrors, c \in {is_closed, TRUE} :
          /\ is_closed' = c
          /\ IF DisconnectCatches(e)
             THEN /\ shutdown' = discs[i].shutdown
                  /\ shutdown_seen' = (shutdown_seen \/ discs[i].shutdown)
                  /\ discs' = [discs EXCEPT ![i].pc = "done", ![i].err = e,
                                            ![i].logged = TRUE]
             ELSE /\ shutdown' = shutdown
                  /\ shutdown_seen' = shutdown_seen
                  /\ discs' = [discs EXCEPT ![i].pc = "raised", ![i].err = e]
    /\ UNCHANGED <<ping_task, tasks, start_pc>>
    /\ UNCHANGED <<confVars, extVars, rateVars, roleVars>>

InitConn ==
    /\ command_period = 1
    /\ command_limit = 1
    /\ fake_connect \in BOOLEAN
    /\ RateIdle /\ ConnIdle /\ RolesIdle /\ ExtIdle

NextConn ==
    \/ Start_call
    \/ LoginReturns
    \/ LoginRaises
    \/ ConnectRaises
    \/ ConnectReturns
    \/ On_ready
    \/ \E t \in DOMAIN tasks : PingLoopSeesClosed(t)
    \/ \E t \in DOMAIN tasks : PingLoopSendsPing(t)
    \/ \E t \in DOMAIN tasks : PingReturns(t)
    \/ \E t \in DOMAIN tasks : PingRaises(t)
    \/ \E t \in DOMAIN tasks : PingTaskCancelled(t)
    \/ \E sd \in BOOLEAN : Disconnect_call(sd)
    \/ \E i \in DOMAIN discs : Disconnect_scheduled_runs(i)
    \/ \E i \in DOMAIN discs : CloseReturns(i)
    \/ \E i \in DOMAIN discs : CloseRaises(i)

SpecConn == InitConn /\ [][NextConn]_vars

-----------------------------------------------------------------------------
\* Channel adapter: get_vanity_roles, bot_command_allowed, and the role
\* commands.

MaxRoles == 3

RoleNames == {"Bot", "Helper"}
RoleArgs == {"Bot", "Helper", "Nobody"}
PermValues == {0, 1}

\* The servers of the model: server.roles starts with the everyone role
\* (server.default_role, position 0), followed by up to MaxRoles roles, each
\* with its own position; server.me.roles holds the everyone role and any
\* of the others.
EveryoneRoles ==
    {[name |-> "@everyone", position |-> 0, permissions |-> p,
      is_everyone |-> TRUE] : p \in PermValues}
OtherRoles ==
    [name : RoleNames, position : 1..MaxRoles, permissions : PermValues,
     is_everyone : {FALSE}]
RolePositions(k) ==
    {p \in [1..k -> 1..MaxRoles] : \A i, j \in 1..k : i # j => p[i] # p[j]}
RoleLists ==
    UNION {{[i \in 1..k |->
                [name |-> n[i], position |-> p[i], permissions |-> q[i],
                 is_everyone |-> FALSE]] :
               n \in [1..k -> RoleNames], p \in RolePositions(k),
               q \in [1..k -> PermValues]}
           : k \in 0..MaxRoles}
ServersOf(rs) ==
    {[roles |-> <<e>> \o rs, me |-> {1} \cup m] :
        e \in EveryoneRoles, m \in SUBSET (2..MaxRoles + 1)}
ServerOk(srv) == srv.me \subseteq DOMAIN srv.roles

\* server.default_role: the everyone role.
DefaultRole(srv) ==
    CHOOSE i \in DOMAIN srv.roles : srv.roles[i].is_everyone

\* Lines 68-72: the first role of server.roles that is named "Bot" and is
\* among server.me.roles; 0 stands for None.
BotRole(srv) ==
    LET held == {i \in DOMAIN srv.roles :
                    srv.roles[i].name = "Bot" /\ i \in srv.me}
    IN  IF held = {} THEN 0
        ELSE CHOOSE i \in held : \A j \in held : i <= j

\* Lines 79-81: the test a role passes to be a vanity role.
IsVanityIgnoresPermissionsMutant(srv, bot, i) ==
    /\ srv.roles[i].position < srv.roles[bot].position
    /\ ~srv.roles[i].is_everyone
IsVanity(srv, bot, i) ==
    /\ srv.roles[i].position < srv.roles[bot].position
    /\ ~srv.roles[i].is_everyone
    /\ srv.roles[i].permissions = srv.roles[DefaultRole(srv)].permissions

\* Line 65 and line 74: a bare return statement returns None.
BareReturn == None

\* get_vanity_roles (lines 63-84).
Get_vanity_roles(private, srv) ==
    IF private THEN BareReturn
    ELSE LET bot == BotRole(srv)
         IN  IF bot = 0 THEN BareReturn
             ELSE List(SelectSeq([i \in DOMAIN srv.roles |-> i],
                                 LAMBDA i : IsVanity(srv, bot, i)))

\* The first role of the list rs whose name is rolename, 0 when there is
\* none (the loops of lines 282-284 and 298-300).
FirstNamed(srv, rs, rolename) ==
    LET hits == {k \in DOMAIN rs : srv.roles[rs[k]].name = rolename}
    IN  IF hits = {} THEN 0
        ELSE rs[CHOOSE k \in hits : \A j \in hits : k <= j]

\* on_message builds a DiscordChannel for each message (line 177), and that
\* adapter serves the one command of the message.
FreshAdapter == cmd.op = "none"

\* A call of get_vanity_roles by itself.
DiscordChannel_get_vanity_roles ==
    /\ FreshAdapter
    /\ cmd' = [NoCmd EXCEPT !.op = "get_vanity_roles", !.outcome = "returned",
                            !.ret = Get_vanity_roles(is_private, server)]
    /\ sent' = <<>>
    /\ granted' = <<>>
    /\ UNCHANGED <<server, is_private>>
    /\ UNCHANGED <<confVars, extVars, rateVars, connVars>>

\* bot_listroles_command (lines 266-275).
Bot_listroles_command ==
    /\ FreshAdapter
    /\ LET roles == Get_vanity_roles(is_private, server)
       IN  /\ cmd' = [NoCmd EXCEPT !.op = "listroles", !.outcome = "returned",
                                   !.ret = roles]
           /\ sent' = IF roles.is_none \/ roles.roles = <<>>
                      THEN <<<<"No available roles found.">>>>
                      ELSE <<<<"names", roles.roles>>>>
    /\ granted' = <<>>
    /\ UNCHANGED <<server, is_private>>
    /\ UNCHANGED <<confVars, extVars, rateVars, connVars>>

\* bot_addrole_command (lines 277-291): iterating over None raises TypeError
\* at line 282.
Bot_addrole_command(rolename) ==
    /\ FreshAdapter
    /\ LET roles == Get_vanity_roles(is_private, server)
           r == FirstNamed(server, roles.roles, rolename)
       IN  /\ cmd' = [NoCmd EXCEPT !.op = "addrole", !.arg = rolename,
                          !.ret = roles,
                          !.outcome = IF roles.is_none THEN "TypeError"
                                      ELSE "returned"]
           /\ IF roles.is_none
              THEN sent' = <<>> /\ granted' = <<>>
              ELSE IF r # 0
              THEN /\ granted' = <<<<"add_roles", r>>>>
                   /\ sent' = <<<<"Member {} has been given role {}",
                                  rolename>>>>
              ELSE /\ granted' = <<>>
                   /\ sent' = <<<<"Unknown role: {}", rolename>>>>
    /\ UNCHANGED <<server, is_private>>
    /\ UNCHANGED <<confVars, extVars, rateVars, connVars>>

\* bot_removerole_command (lines 293-313), invoked by a user who holds the
\* roles ur.
Bot_removerole_command(rolename, ur) ==
    /\ FreshAdapter
    /\ LET roles == Get_vanity_roles(is_private, server)
           r == FirstNamed(server, roles.roles, rolename)
       IN  /\ cmd' = [NoCmd EXCEPT !.op = "removerole", !.arg = rolename,
                          !.ret = roles, !.user_roles = ur,
                          !.outcome = IF roles.is_none THEN "TypeError"
                                      ELSE "returned"]
           /\ IF roles.is_none
              THEN sent' = <<>> /\ granted' = <<>>
              ELSE IF r # 0 /\ r \notin ur
              THEN /\ granted' = <<>>
                   /\ sent' = <<<<"Member {} does not have role {}",
                                  rolename>>>>
              ELSE IF r # 0
              THEN /\ granted' = <<<<"remove_roles", r>>>>
                   /\ sent' = <<<<"Member {} has lost role {}", rolename>>>>
              ELSE /\ granted' = <<>>
                   /\ sent' = <<<<"Unknown role: {}", rolename>>>>
    /\ UNCHANGED <<server, is_private>>
    /\ UNCHANGED <<confVars, extVars, rateVars, connVars>>

\* The command table (lines 409-507): each command's source_restriction.
Bot_commands ==
    [c \in {"version", "debugmode", "bothelp", "listroles", "addrole",
            "removerole", "glasses", "deal", "dance", "zxcdance", "say"} |->
        [source_restriction |->
            CASE c \in {"version", "debugmode"} -> "admin"
              [] c \in {"listroles", "addrole", "removerole"} -> "channel"
              [] OTHER -> "None"]]

\* What the framework's generic check (ChatWatcher.bot_command_allowed) can
\* answer.
GenericAnswers ==
    {[allowed |-> TRUE, reason |-> "None"],
     [allowed |-> FALSE, reason |-> "This command must be run by an admin."],
     [allowed |-> FALSE, reason |-> "This command is not available."]}

\* Lines 88-89: the command is for channels and the adapter wraps a private
\* conversation.
ChannelOnlyIgnoresPrivateMutant(entry, private) ==
    entry.source_restriction = "channel"
ChannelOnlyInPrivate(entry, private) ==
    entry.source_restriction = "channel" /\ private

Users == {"admin", "member", "stranger"}

\* bot_command_allowed (lines 86-92); g is the answer the generic check
\* gives when it is asked.
DiscordChannel_bot_command_allowed(user, command, g) ==
    /\ LET entry == Bot_commands[command]
       IN  IF ChannelOnlyInPrivate(entry, is_private)
           THEN cmd' = [NoCmd EXCEPT !.op = "bot_command_allowed",
                            !.arg = command, !.user = user,
                            !.outcome = "returned",
                            !.allowed = FALSE,
                            !.reason = "This command must be run in a channel."]
           ELSE cmd' = [NoCmd EXCEPT !.op = "bot_command_allowed",
                            !.arg = command, !.user = user,
                            !.outcome = "returned",
                            !.allowed = g.allowed, !.reason = g.reason,
                            !.generic = g, !.generic_calls = 1]
    /\ sent' = <<>>
    /\ granted' = <<>>
    /\ UNCHANGED <<server, is_private>>
    /\ UNCHANGED <<confVars, extVars, rateVars, connVars>>

InitRoles ==
    /\ command_period = 1
    /\ command_limit = 1
    /\ fake_connect = FALSE
    /\ RateIdle /\ ConnIdle /\ ExtIdle
    /\ cmd = NoCmd
    /\ sent = <<>>
    /\ granted = <<>>
    /\ \/ is_private = TRUE /\ server = NoServer
       \/ /\ is_private = FALSE
          /\ \E rs \in RoleLists :
                server \in {srv \in ServersOf(rs) : ServerOk(srv)}

NextRoles ==
    \/ DiscordChannel_get_vanity_roles
    \/ Bot_listroles_command
    \/ \E rolename \in RoleArgs : Bot_addrole_command(rolename)
    \/ \E rolename \in RoleArgs, ur \in {{}, DOMAIN server.roles} :
          Bot_removerole_command(rolename, ur)

SpecRoles == InitRoles /\ [][NextRoles]_vars

InitPerm ==
    /\ command_period = 1
    /\ command_limit = 1
    /\ fake_connect = FALSE
    /\ RateIdle /\ ConnIdle /\ ExtIdle
    /\ cmd = NoCmd
    /\ sent = <<>>
    /\ granted = <<>>
    /\ server = NoServer
    /\ is_private \in BOOLEAN

NextPerm ==
    \E user \in Users, command \in DOMAIN Bot_commands, g \in GenericAnswers :
        DiscordChannel_bot_command_allowed(user, command, g)

SpecPerm == InitPerm /\ [][NextPerm]_vars

-----------------------------------------------------------------------------
\* Properties of the channel adapter and the role commands.

\* The roles the bridge account holds that are named "Bot".
HeldBotRoles ==
    {i \in DOMAIN server.roles : server.roles[i].name = "Bot" /\ i \in server.me}
\* The vanity roles as the specification describes them: strictly below the
\* held "Bot" role, not the everyone role, permissions equal to those of the
\* default role; none when no "Bot" role is held.
SpecifiedVanity ==
    IF HeldBotRoles = {} THEN {}
    ELSE {i \in DOMAIN server.roles :
            /\ server.roles[i].position < server.roles[BotRole(server)].position
            /\ ~server.roles[i].is_everyone
            /\ server.roles[i].permissions
                  = server.roles[DefaultRole(server)].permissions}
InBackendOrder(rs) == \A j, k \in DOMAIN rs : j < k => rs[j] < rs[k]

\* C8 as stated: in a group channel get_vanity_roles returns a collection
\* holding exactly the specified vanity roles in the backend's order, which
\* is an empty collection when the bridge account holds no "Bot" role.
C8_VanityRolesAreTheSpecifiedCollection ==
    (cmd.op = "get_vanity_roles" /\ ~is_private) =>
        /\ ~cmd.ret.is_none
        /\ {cmd.ret.roles[k] : k \in DOMAIN cmd.ret.roles} = SpecifiedVanity
        /\ InBackendOrder(cmd.ret.roles)

\* C9 as stated: addrole in a group channel with a name that no vanity role
\* has replies exactly "Unknown role: <name>", grants nothing and raises
\* nothing, whatever the roles of the server.
C9_UnknownRoleIsReported ==
    (/\ cmd.op = "addrole"
     /\ ~is_private
     /\ cmd.arg \notin {server.roles[i].name : i \in SpecifiedVanity}) =>
        /\ cmd.outcome = "returned"
        /\ sent = <<<<"Unknown role: {}", cmd.arg>>>>
        /\ granted = <<>>

\* C10: bot_command_allowed answers (False, "This command must be run in a
\* channel.") without asking the generic check when the command's
\* source_restriction is "channel" and the conversation is private; in every
\* other case it asks the generic check once and returns its answer.
C10_ChannelOnlyRuleThenGenericCheck ==
    cmd.op = "bot_command_allowed" =>
        IF Bot_commands[cmd.arg].source_restriction = "channel" /\ is_private
        THEN /\ ~cmd.allowed
             /\ cmd.reason = "This command must be run in a channel."
             /\ cmd.generic_calls = 0
        ELSE /\ cmd.generic_calls = 1
             /\ cmd.allowed = cmd.generic.allowed
             /\ cmd.reason = cmd.generic.reason

\* C10 witnesses: addrole refused in a private conversation; addrole in a
\* channel and a command without restriction in a private conversation are
\* left to the generic check (here reached through the first of them, the
\* others being states of the same run).
C10_Witness ==
    /\ cmd.op = "bot_command_allowed"
    /\ cmd.arg = "addrole"
    /\ is_private
    /\ ~cmd.allowed
    /\ cmd.generic_calls = 0

-----------------------------------------------------------------------------
\* Properties of the connection manager.

\* C4: when a ping of a keepalive loop fails with a non-cancellation error,
\* that loop has requested disconnect exactly once and is over, and it sends
\* no ping and requests no disconnect afterwards.
C4_PingFailureDisconnectsOnceAndStops ==
    /\ [](\A t \in DOMAIN tasks :
            tasks[t].failed => tasks[t].disc_req = 1 /\ tasks[t].pc = "done")
    /\ [][\A t \in DOMAIN tasks :
            tasks[t].failed => /\ tasks'[t].pings = tasks[t].pings
                               /\ tasks'[t].disc_req = tasks[t].disc_req]_vars

\* C4 witness: a loop that had pinged successfully failed on a later ping,
\* and the disconnect it requested has run to its end.
C4_Witness ==
    \E t \in DOMAIN tasks :
        /\ tasks[t].failed
        /\ tasks[t].pings >= 2
        /\ \E i \in DOMAIN discs : discs[i].by = t /\ discs[i].pc = "done"

\* C5: no disconnect() call ends by raising, from whatever state it was
\* called and also when close() raises; an error of close() is logged.
C5_DisconnectNeverRaises ==
    \A i \in DOMAIN discs :
        /\ discs[i].pc # "raised"
        /\ discs[i].err # "none" => discs[i].logged

\* C5 witness: a disconnect() returned after close() raised, and another one
\* returned at once because the client was closed or faked.
C5_Witness ==
    /\ \E i \in DOMAIN discs : discs[i].pc = "done" /\ discs[i].err # "none"
    /\ \E i \in DOMAIN discs : discs[i].pc = "done" /\ discs[i].err = "none"

\* C6 as stated: once a disconnect(shutdown=True) has set the shutdown flag,
\* the flag stays True.
C6_ShutdownFlagIsTerminal ==
    shutdown_seen => shutdown

\* C7 as stated: a failure of login or connect inside start() is not raised
\* to the caller of start().
C7_StartNeverRaises ==
    start_pc # "raised"

-----------------------------------------------------------------------------
\* Properties of the rate limiter.

LastCall == calls[Len(calls)]
Accepted == {i \in DOMAIN calls : ~calls[i].ret}
Rejected == {i \in DOMAIN calls : calls[i].ret}
\* Every call so far lies in a span shorter than command_period (the clock
\* does not go back, so the span is last minus first).
AllWithinOnePeriod ==
    calls # <<>> /\ LastCall.t - calls[1].t < command_period
\* The last call came more than command_period after every timestamp that
\* was recorded when it was made.
LastCallAfterWindow ==
    /\ calls # <<>>
    /\ \A k \in DOMAIN pre_times : LastCall.t - pre_times[k] > command_period

\* C1: of n calls whose timestamps lie within a span shorter than
\* command_period, starting from an empty list, exactly min(n, command_limit)
\* are accepted and the others are rejected.
C1_BurstAcceptsMinOfCallsAndLimit ==
    AllWithinOnePeriod =>
        /\ Cardinality(Accepted) = Min(Len(calls), command_limit)
        /\ Cardinality(Rejected)
              = Len(calls) - Min(Len(calls), command_limit)

\* C1 witness: a burst longer than a positive limit, so that calls were
\* accepted and calls were rejected.
C1_Witness ==
    /\ AllWithinOnePeriod
    /\ command_limit >= 1
    /\ Len(calls) > command_limit
    /\ LastCall.ret

\* C2 as stated: a call made more than command_period after every recorded
\* timestamp is accepted, whatever the history.
C2_LateCallAlwaysAccepted ==
    LastCallAfterWindow => ~LastCall.ret

\* C2 amended: with command_limit >= 1, a call made more than command_period
\* after every recorded timestamp is accepted, whatever the history.
C2_LateCallAcceptedWhenLimitPositive ==
    (LastCallAfterWindow /\ command_limit >= 1) => ~LastCall.ret

\* C2 witness: the window had been filled to command_limit, a call had been
\* rejected, and the late call was accepted.
C2_Witness ==
    /\ LastCallAfterWindow
    /\ command_limit >= 1
    /\ Len(pre_times) = command_limit
    /\ \E i \in DOMAIN calls : calls[i].ret
    /\ ~LastCall.ret

\* C3 as stated: when the limiter rejects a command,
\* DiscordChannel.handle_timeout returns True (dropped) after exactly one
\* info-level log entry per rejection, with no chat reply and no error.
C3_RejectionIsLoggedAndDropped ==
    chan_rejects > 0 =>
        /\ chan_outcome \in {"True", "False"}
        /\ info_log = chan_rejects
        /\ sent = <<>>

\* The timestamps of pre_times that are less than command_period older than
\* the last call, in their order.
StillInWindow ==
    SelectSeq(pre_times, LAMBDA x : LastCall.t - x < command_period)

\* C14: a rejected call leaves in message_times exactly the previously
\* recorded timestamps that are still within command_period; an accepted
\* call leaves those followed by the time of the call.
C14_RejectedCallIsNotRecorded ==
    calls # <<>> =>
        IF LastCall.ret
        THEN message_times = StillInWindow
        ELSE message_times = Append(StillInWindow, LastCall.t)

\* C14 witness: after a rejected call, an accepted call pruned an expired
\* timestamp, kept a live one and appended its own.
C14_Witness ==
    /\ calls # <<>>
    /\ ~LastCall.ret
    /\ \E i \in DOMAIN calls : calls[i].ret
    /\ Len(StillInWindow) >= 1
    /\ Len(StillInWindow) < Len(pre_times)
    /\ message_times = Append(StillInWindow, LastCall.t)

\* C14 second case: a rejected call that found a full window left it as it
\* was.
C14_RejectedWitness ==
    /\ calls # <<>>
    /\ LastCall.ret
    /\ pre_times # <<>>
    /\ message_times = pre_times

\* Keepalive with several ready signals: the connection manager with up to
\* MaxReady ready signals on a connection that start() has opened.
MaxReady == 2

InitReady ==
    /\ command_period = 1
    /\ command_limit = 1
    /\ fake_connect = FALSE
    /\ RateIdle /\ RolesIdle /\ ExtIdle
    /\ is_closed = FALSE
    /\ shutdown = FALSE
    /\ ping_task = 0
    /\ tasks = <<>>
    /\ discs = <<>>
    /\ start_pc = "connect"
    /\ shutdown_seen = FALSE

NextReady ==
    \/ OnReady(MaxReady)
    \/ ConnectReturns
    \/ \E t \in DOMAIN tasks : PingLoopSeesClosed(t)
    \/ \E t \in DOMAIN tasks : PingLoopSendsPing(t)
    \/ \E t \in DOMAIN tasks : PingReturns(t)
    \/ \E t \in DOMAIN tasks : PingRaises(t)
    \/ \E t \in DOMAIN tasks : PingTaskCancelled(t)
    \/ \E sd \in BOOLEAN : Disconnect_call(sd)
    \/ \E i \in DOMAIN discs : Disconnect_scheduled_runs(i)
    \/ \E i \in DOMAIN discs : CloseReturns(i)
    \/ \E i \in DOMAIN discs : CloseRaises(i)

SpecReady == InitReady /\ [][NextReady]_vars

\* C17: once disconnect has cancelled a keepalive task, that task sends no
\* ping, logs no failure and requests no disconnect, whether it was
\* suspended in the ping or in the sleep.
C17_CancelledLoopExitsSilently ==
    [][\A t \in DOMAIN tasks :
          tasks[t].cancel => /\ tasks'[t].pings = tasks[t].pings
                             /\ tasks'[t].logged = tasks[t].logged
                             /\ tasks'[t].disc_req = tasks[t].disc_req
                             /\ tasks'[t].failed = tasks[t].failed]_vars

\* C17 witness: a task cancelled while it was suspended in ws.ping(), after
\* an earlier ping and sleep, has ended without a failure.
C17_Witness ==
    \E t \in DOMAIN tasks :
        /\ tasks[t].cancelled_at = "ping"
        /\ tasks[t].pings >= 2
        /\ tasks[t].pc = "done"
        /\ ~tasks[t].failed

\* C17 second case: a task cancelled in the sleep has ended.
C17_SleepWitness ==
    \E t \in DOMAIN tasks :
        /\ tasks[t].cancelled_at = "sleep"
        /\ tasks[t].pc = "done"
        /\ ~tasks[t].failed

\* C20 as stated: at most one keepalive loop runs at any time and ping_task
\* refers to it, so that the cancellation of lines 214-215 reaches every
\* running loop.
C20_OneKeepaliveLoopHeldByPingTask ==
    /\ Cardinality({t \in DOMAIN tasks : Running(t)}) <= 1
    /\ \A t \in DOMAIN tasks : Running(t) => ping_task = t

\* C19: every role handed to add_roles or remove_roles is a vanity role of
\* the invoking channel (strictly below the held "Bot" role, not the
\* everyone role, permissions equal to the default role's), and remove_roles
\* is only called for a role the member holds.
C19_OnlyVanityRolesGrantedOrRevoked ==
    \A k \in DOMAIN granted :
        /\ granted[k][2] \in SpecifiedVanity
        /\ granted[k][1] = "remove_roles" => granted[k][2] \in cmd.user_roles

\* C19 witness: a role was granted although the server also has a role of
\* the requested name that is not a vanity role.
C19_Witness ==
    /\ cmd.op = "addrole"
    /\ granted # <<>>
    /\ \E i \in DOMAIN server.roles \ SpecifiedVanity :
          server.roles[i].name = cmd.arg

\* C19 second case: a held vanity role was revoked.
C19_RemoveWitness ==
    /\ cmd.op = "removerole"
    /\ granted # <<>>
    /\ granted[1][1] = "remove_roles"

-----------------------------------------------------------------------------
\* Inbound message events: on_message, and read_chat up to the limiter.

MaxEvents == 2

\* The message events delivered: a command of one author, and a message
\* of another author that is no command.
Messages == {[author |-> "alice", content |-> "!addrole Helper"],
             [author |-> "bob", content |-> "hello"]}
IsCommand(content) == content = "!addrole Helper"

\* Line 174: the event is dropped when the client is not logged in.
IgnoresEventNeverMutant(logged_in) == FALSE
IgnoresEvent(logged_in) == ~logged_in

\* Line 178: the arguments read_chat is called with.
ReadChatArgs(author, content) == <<author, content>>

\* login() and close() set and clear is_logged_in.
LoginStateChanges ==
    /\ is_logged_in' = ~is_logged_in
    /\ UNCHANGED <<events, backend, forwarded, idents, lookup>>
    /\ UNCHANGED <<confVars, rateVars, connVars, roleVars>>

\* on_message (lines 172-178), up to its first suspension: return when not
\* logged in; otherwise build a DiscordChannel and enter read_chat.
On_message(author, content) ==
    /\ Len(events) < MaxEvents
    /\ events' = Append(events,
          IF IgnoresEvent(is_logged_in)
          THEN [author |-> author, content |-> content,
                logged_in |-> is_logged_in, adapters |-> 0,
                read_chat |-> <<>>, pc |-> "done"]
          ELSE [author |-> author, content |-> content,
                logged_in |-> is_logged_in, adapters |-> 1,
                read_chat |-> <<ReadChatArgs(author, content)>>,
                pc |-> "read_chat"])
    /\ UNCHANGED <<is_logged_in, backend, forwarded, idents, lookup>>
    /\ UNCHANGED <<confVars, rateVars, connVars, roleVars>>

\* read_chat finds no command in the message and returns.
ReadChatNoCommand(e) ==
    /\ events[e].pc = "read_chat"
    /\ ~IsCommand(events[e].content)
    /\ events' = [events EXCEPT ![e].pc = "done"]
    /\ UNCHANGED <<is_logged_in, backend, forwarded, idents, lookup>>
    /\ UNCHANGED <<confVars, rateVars, connVars, roleVars>>

\* The list the test of line 231 is made on: handle_timeout holds no yield,
\* so it is the list as the call finds it, not as an earlier call found it.
LimiterInputStaleMutant == pre_times
LimiterInput == message_times

\* read_chat finds a command and consults DiscordChannel.handle_timeout
\* (lines 94-101, 226-235) in one step of the event loop: the handler goes
\* on to run the command, or ends with the NameError of lines 96-98. The
\* outcome is kept in the handler's pc.
ReadChatConsultsLimiter(e) ==
    /\ events[e].pc = "read_chat"
    /\ IsCommand(events[e].content)
    /\ LET pruned == PruneFrom(message_times, 1, message_times, now)
           r == Manager_handle_timeout(LimiterInput, now)
       IN  /\ message_times' = IF r.ret THEN pruned ELSE Append(pruned, now)
           /\ pre_times' = message_times
           /\ events' = [events EXCEPT ![e].pc =
                 IF ~r.ret THEN "command"
                 ELSE IF UnboundLogNames # {} THEN "error" ELSE "done"]
    /\ UNCHANGED <<now, calls, chan_outcome, chan_rejects, info_log>>
    /\ UNCHANGED <<is_logged_in, backend, forwarded, idents, lookup>>
    /\ UNCHANGED <<confVars, connVars, roleVars>>

\* The command of an accepted message ends (its replies are awaited).
CommandEnds(e) ==
    /\ events[e].pc = "command"
    /\ events' = [events EXCEPT ![e].pc = "done"]
    /\ UNCHANGED <<is_logged_in, backend, forwarded, idents, lookup>>
    /\ UNCHANGED <<confVars, rateVars, connVars, roleVars>>

\* The manager is connected and its keepalive task has one ping left to
\* send within the bound.
InitMsg ==
    /\ command_period \in 1..MaxPeriod
    /\ command_limit \in 0..MaxLimit
    /\ fake_connect = FALSE
    /\ RateIdle /\ RolesIdle
    /\ is_closed = FALSE
    /\ shutdown = FALSE
    /\ ping_task = 1
    /\ tasks = <<[NewTask EXCEPT !.pings = MaxPings - 1]>>
    /\ discs = <<>>
    /\ start_pc = "connect"
    /\ shutdown_seen = FALSE
    /\ is_logged_in \in BOOLEAN
    /\ events = <<>>
    /\ backend = NoBackend
    /\ forwarded = <<>>
    /\ idents = {}
    /\ lookup = NoLookup

NextMsg ==
    \/ Tick
    \/ LoginStateChanges
    \/ \E m \in Messages : On_message(m.author, m.content)
    \/ \E e \in DOMAIN events : ReadChatNoCommand(e)
    \/ \E e \in DOMAIN events : ReadChatConsultsLimiter(e)
    \/ \E e \in DOMAIN events : CommandEnds(e)
    \/ \E t \in DOMAIN tasks : PingLoopSendsPing(t)
    \/ \E t \in DOMAIN tasks : PingReturns(t)

SpecMsg == InitMsg /\ [][NextMsg]_vars

\* C15: whatever the interleaving of message handlers and the keepalive
\* task, message_times never holds more than command_limit timestamps.
C15_WindowNeverExceedsLimit ==
    Len(message_times) <= command_limit

\* C15 witness: a handler is suspended in its command, a second one has
\* been rejected on the full window, and the keepalive task is suspended
\* in its ping.
C15_Witness ==
    /\ command_limit >= 1
    /\ Len(message_times) = command_limit
    /\ \E e \in DOMAIN events : events[e].pc = "command"
    /\ \E e \in DOMAIN events : events[e].pc = "error"
    /\ \E t \in DOMAIN tasks : tasks[t].pc = "ping"

\* C16: an event that arrives while the client is not logged in builds no
\* adapter, calls read_chat not at all and changes nothing else; an event
\* that arrives while logged in calls read_chat once, with the author and
\* the content of the event.
C16_EventsForwardedOnlyWhenLoggedIn ==
    /\ [](\A e \in DOMAIN events :
            IF events[e].logged_in
            THEN /\ events[e].adapters = 1
                 /\ events[e].read_chat
                       = <<<<events[e].author, events[e].content>>>>
            ELSE /\ events[e].adapters = 0
                 /\ events[e].read_chat = <<>>
                 /\ events[e].pc = "done")
    /\ [][(Len(events') > Len(events) /\ ~is_logged_in) =>
            UNCHANGED <<confVars, rateVars, connVars, roleVars, is_logged_in,
                        backend, forwarded, idents, lookup>>]_vars

\* C16 witness: one event was dropped and another one forwarded.
C16_Witness ==
    /\ \E e \in DOMAIN events : ~events[e].logged_in /\ events[e].pc = "done"
    /\ \E e \in DOMAIN events :
          events[e].logged_in /\ Len(events[e].read_chat) = 1

-----------------------------------------------------------------------------
\* Source identities: get_source_ident and get_source_by_ident.

MaxChannels == 3

\* The channels the backend can expose; channel 1 is a private one.
Channels == {[id |-> i, is_private |-> (i = 1)] : i \in 1..MaxChannels}

\* DiscordManager.service.
Service == "Discord"

\* A DiscordChannel built on a channel, and the absent result.
Adapter(channel) == [is_none |-> FALSE, channel |-> channel]
NoAdapter == [is_none |-> TRUE]
NoChannel == [id |-> 0, is_private |-> FALSE]

\* Line 107: the identity of an adapter.
Get_source_ident(adapter) == [service |-> Service, id |-> adapter.channel.id]

\* Client.get_channel: the exposed channel with this id, if there is one.
HasChannel(id) == \E c \in backend.channels : c.id = id
Get_channel(id) ==
    IF HasChannel(id) THEN CHOOSE c \in backend.channels : c.id = id
    ELSE NoChannel

\* get_source_by_ident (lines 184-188).
Get_source_by_identNoCheckMutant(source_ident) ==
    Adapter(Get_channel(source_ident.id))
Get_source_by_ident(source_ident) ==
    IF ~HasChannel(source_ident.id) THEN NoAdapter
    ELSE Adapter(Get_channel(source_ident.id))

\* The backend starts or stops exposing a channel.
BackendAddsChannel(c) ==
    /\ c \notin backend.channels
    /\ backend' = [backend EXCEPT !.channels = @ \cup {c}]
    /\ UNCHANGED <<is_logged_in, events, forwarded, idents, lookup>>
    /\ UNCHANGED <<confVars, rateVars, connVars, roleVars>>

BackendRemovesChannel(c) ==
    /\ c \in backend.channels
    /\ backend' = [backend EXCEPT !.channels = @ \ {c}]
    /\ UNCHANGED <<is_logged_in, events, forwarded, idents, lookup>>
    /\ UNCHANGED <<confVars, rateVars, connVars, roleVars>>

\* The adapter of an exposed channel is asked for its identity.
DiscordChannel_get_source_ident(c) ==
    /\ c \in backend.channels
    /\ idents' = idents \cup {Get_source_ident(Adapter(c))}
    /\ UNCHANGED <<is_logged_in, events, backend, forwarded, lookup>>
    /\ UNCHANGED <<confVars, rateVars, connVars, roleVars>>

\* A saved identity is resolved.
DiscordManager_get_source_by_ident(source_ident) ==
    /\ lookup' = [called |-> TRUE, ident |-> source_ident,
                  exposed |-> HasChannel(source_ident.id),
                  result |-> Get_source_by_ident(source_ident)]
    /\ UNCHANGED <<is_logged_in, events, backend, forwarded, idents>>
    /\ UNCHANGED <<confVars, rateVars, connVars, roleVars>>

InitIdent ==
    /\ command_period = 1
    /\ command_limit = 1
    /\ fake_connect = FALSE
    /\ RateIdle /\ ConnIdle /\ RolesIdle
    /\ is_logged_in = FALSE
    /\ events = <<>>
    /\ backend = NoBackend
    /\ forwarded = <<>>
    /\ idents = {}
    /\ lookup = NoLookup

NextIdent ==
    \/ \E c \in Channels : BackendAddsChannel(c)
    \/ \E c \in Channels : BackendRemovesChannel(c)
    \/ \E c \in Channels : DiscordChannel_get_source_ident(c)
    \/ \E i \in idents : DiscordManager_get_source_by_ident(i)

SpecIdent == InitIdent /\ [][NextIdent]_vars

\* C18: for every channel the backend exposes, resolving the identity of its
\* adapter gives an adapter with the same identity {service, id}; resolving
\* an identity whose channel the backend no longer exposes gives None.
C18_IdentRoundTrip ==
    /\ \A c \in backend.channels :
          LET ident == Get_source_ident(Adapter(c))
              found == Get_source_by_ident(ident)
          IN  /\ ~found.is_none
              /\ Get_source_ident(found) = ident
              /\ ident = [service |-> Service, id |-> c.id]
    /\ \A i \in idents :
          ~HasChannel(i.id) => Get_source_by_ident(i).is_none
    /\ lookup.called =>
          IF lookup.exposed
          THEN /\ ~lookup.result.is_none
               /\ Get_source_ident(lookup.result) = lookup.ident
          ELSE lookup.result.is_none

\* C18 witness: an identity was resolved while its channel was exposed.
C18_Witness ==
    /\ lookup.called
    /\ lookup.exposed
    /\ ~lookup.result.is_none

\* C18 witness: an identity was resolved after the backend stopped exposing
\* its channel.
C18_GoneWitness ==
    /\ lookup.called
    /\ ~lookup.exposed
    /\ lookup.result.is_none
    /\ lookup.ident \in idents

-----------------------------------------------------------------------------
\* The say command: bot_say_command.

MaxServers == 2
MaxServerChannels == 2

\* Names and patterns are sequences of characters; str.lower and the code
\* point order of sorted() are given on the characters used.
Lower(c) == CASE c = "A" -> "a" [] c = "B" -> "b" [] OTHER -> c
Ord(c) == CASE c = "A" -> 65 [] c = "B" -> 66 [] c = "a" -> 97 [] OTHER -> 98
LowerStr(str) == [i \in DOMAIN str |-> Lower(str[i])]

\* x in y, for strings.
Contains(y, x) ==
    \E i \in 1..(Len(y) - Len(x) + 1) : SubSeq(y, i, i + Len(x) - 1) = x

\* x < y in the order of sorted().
StrLess(x, y) ==
    \/ \E i \in 1..Len(x) :
          /\ i <= Len(y)
          /\ SubSeq(x, 1, i - 1) = SubSeq(y, 1, i - 1)
          /\ Ord(x[i]) < Ord(y[i])
    \/ Len(x) < Len(y) /\ SubSeq(y, 1, Len(x)) = x

RECURSIVE InsertSorted(_, _)
InsertSorted(name, sorted) ==
    IF sorted = <<>> THEN <<name>>
    ELSE IF StrLess(Head(sorted), name)
         THEN <<Head(sorted)>> \o InsertSorted(name, Tail(sorted))
         ELSE <<name>> \o sorted

RECURSIVE Sorted(_)
Sorted(names) ==
    IF names = <<>> THEN <<>>
    ELSE InsertSorted(Head(names), Sorted(Tail(names)))

ServerNames == {<<"A", "b">>, <<"b", "a">>}
ChannelNames == {<<"a">>, <<"B", "a">>}
ChannelTypes == {"text", "voice"}
SayPatterns == {<<"a">>, <<"B">>, <<"a", "b">>}

SeqsUpTo(S, n) == UNION {[1..k -> S] : k \in 0..n}

ServerChannels == [name : ChannelNames, type : ChannelTypes]
SayServers ==
    [name : ServerNames, channels : SeqsUpTo(ServerChannels, MaxServerChannels)]

\* The objects send_message can be handed as its destination.
ServerObj(si) == [kind |-> "server", server |-> si, channel |-> 0]
ChannelObj(si, ci) == [kind |-> "channel", server |-> si, channel |-> ci]

\* Lines 381-384: the index of the first server whose name holds the
\* pattern, case ignored; 0 if there is none.
MatchServer(server_arg) ==
    LET hits == {i \in DOMAIN backend.servers :
                    Contains(LowerStr(backend.servers[i].name),
                             LowerStr(server_arg))}
    IN  IF hits = {} THEN 0 ELSE CHOOSE i \in hits : \A j \in hits : i <= j

\* Lines 393-394: the indices of the text channels of a server, in order.
TextChannels(si) ==
    LET chans == backend.servers[si].channels
    IN  SelectSeq([i \in DOMAIN chans |-> i], LAMBDA i : chans[i].type = "text")

\* Lines 395-396: the index of the first text channel whose name holds the
\* pattern, case ignored; 0 if there is none.
MatchChannel(si, channel_arg) ==
    LET chans == backend.servers[si].channels
        text == TextChannels(si)
        hits == {k \in DOMAIN text :
                    Contains(LowerStr(chans[text[k]].name), LowerStr(channel_arg))}
    IN  IF hits = {} THEN 0
        ELSE text[CHOOSE k \in hits : \A j \in hits : k <= j]

\* Line 397: what dest_channel is bound to when channel c of server s
\* matches: the loop variable s of the server loop.
Dest_channel(s, c) == ServerObj(s)

\* bot_say_command (lines 375-405).
Bot_say_command(server_arg, channel_arg, message) ==
    /\ FreshAdapter
    /\ LET si == MatchServer(server_arg)
           ci == IF si = 0 THEN 0 ELSE MatchChannel(si, channel_arg)
           chans == backend.servers[si].channels
           text == TextChannels(si)
       IN  IF si = 0
           THEN /\ sent' = <<<<"Can't find server match for {}, must match one of: {}",
                              server_arg,
                              Sorted([i \in DOMAIN backend.servers |->
                                         backend.servers[i].name])>>>>
                /\ forwarded' = <<>>
                /\ cmd' = [NoCmd EXCEPT !.op = "say", !.outcome = "returned",
                              !.arg = <<server_arg, channel_arg, message>>]
           ELSE IF ci = 0
           THEN /\ sent' = <<<<"Can't find channel match for {}, must match one of: {}",
                              channel_arg,
                              Sorted([k \in DOMAIN text |->
                                         chans[text[k]].name])>>>>
                \* line 405 runs with dest_channel None
                /\ forwarded' = <<>>
                /\ cmd' = [NoCmd EXCEPT !.op = "say",
                              !.outcome = "InvalidArgument",
                              !.arg = <<server_arg, channel_arg, message>>]
           ELSE /\ sent' = <<>>
                /\ forwarded' = <<[dest |-> Dest_channel(si, ci),
                                   payload |-> message]>>
                /\ cmd' = [NoCmd EXCEPT !.op = "say", !.outcome = "returned",
                              !.arg = <<server_arg, channel_arg, message>>]
    /\ UNCHANGED <<server, is_private, granted>>
    /\ UNCHANGED <<is_logged_in, events, backend, idents, lookup>>
    /\ UNCHANGED <<confVars, rateVars, connVars>>

InitSay ==
    /\ command_period = 1
    /\ command_limit = 1
    /\ fake_connect = FALSE
    /\ RateIdle /\ ConnIdle /\ RolesIdle
    /\ is_logged_in = TRUE
    /\ events = <<>>
    /\ backend \in [channels : {{}}, servers : SeqsUpTo(SayServers, MaxServers)]
    /\ forwarded = <<>>
    /\ idents = {}
    /\ lookup = NoLookup

NextSay ==
    \E server_arg \in SayPatterns, channel_arg \in SayPatterns :
        Bot_say_command(server_arg, channel_arg, "hi")

SpecSay == InitSay /\ [][NextSay]_vars

\* C12: when the say command finds a matching server and a matching text
\* channel, the one message forwarded goes to the matched channel.
C12_ForwardedToMatchedChannel ==
    cmd.op = "say" =>
        LET si == MatchServer(cmd.arg[1])
            ci == IF si = 0 THEN 0 ELSE MatchChannel(si, cmd.arg[2])
        IN  (si # 0 /\ ci # 0) =>
                forwarded = <<[dest |-> ChannelObj(si, ci),
                               payload |-> cmd.arg[3]]>>

\* C13: when the say command finds no matching server or no matching text
\* channel, it sends one reply to the invoking source, forwards nothing
\* and raises no error.
C13_NoMatchOnlyReplies ==
    cmd.op = "say" =>
        LET si == MatchServer(cmd.arg[1])
            ci == IF si = 0 THEN 0 ELSE MatchChannel(si, cmd.arg[2])
        IN  (si = 0 \/ ci = 0) =>
                /\ Len(sent) = 1
                /\ forwarded = <<>>
                /\ cmd.outcome = "returned"

-----------------------------------------------------------------------------
\* Outbound chat: send_chat.

MaxChunks == 3

\* Messages are sequences of characters. "H" stands for the scheme
\* "http://" and "a" for a character of [a-z]; the message characters of
\* the model hold no '@', ':', '-' or digit, so of _url_regexp (lines 20-25)
\* the userinfo, address and port alternatives never match and a host
\* label is a+.
Markdown == <<"*", "_", "~">>
Backslash == "\\"
\* Stands for the backquote character.
Backquote == "bq"

Chunks == {<<"H", "a", ".", "a", "a">>, <<"/", "a", "_", "a">>, <<" ">>,
           <<"_">>, <<"*", "a", "~">>, <<"H", "a">>, <<".", "a">>,
           <<Backquote, Backquote, Backquote>>}

RECURSIVE Flatten(_)
Flatten(seqs) ==
    IF seqs = <<>> THEN <<>> ELSE Head(seqs) \o Flatten(Tail(seqs))

ChatMessages == {Flatten(cs) : cs \in SeqsUpTo(Chunks, MaxChunks)}
MessageTypes == {"normal", "action", "monster"}

\* The host part of _url_regexp: a+(\.a+)*\.aa+ .
ValidHost(w) ==
    /\ Len(w) >= 4
    /\ \A i \in DOMAIN w : w[i] \in {"a", "."}
    /\ w[1] = "a"
    /\ \A i \in DOMAIN w : w[i] = "." => (i < Len(w) /\ w[i + 1] = "a")
    /\ \E i \in DOMAIN w : w[i] = "."
    /\ w[Len(w)] = "a" /\ w[Len(w) - 1] = "a"

Max(S) == CHOOSE x \in S : \A y \in S : y <= x

\* Where the match of _url_regexp that starts at position i ends; 0 if
\* there is none. The greedy quantifiers give the longest host, and the
\* path (?:/[^\s]*)? runs up to the next space.
MatchEnd(msg, i) ==
    IF msg[i] # "H" THEN 0
    ELSE LET hosts == {k \in (i + 1)..Len(msg) :
                          ValidHost(SubSeq(msg, i + 1, k))}
         IN  IF hosts = {} THEN 0
             ELSE LET h == Max(hosts)
                  IN  IF h < Len(msg) /\ msg[h + 1] = "/"
                      THEN Max({m \in (h + 1)..Len(msg) :
                                  \A j \in (h + 1)..m : msg[j] # " "})
                      ELSE h

\* re.split(_url_regexp, message) (line 115), scanning from position i
\* with the text since position from: text parts and matches alternate.
RECURSIVE Re_split(_, _, _)
Re_split(msg, from, i) ==
    IF i > Len(msg) THEN <<SubSeq(msg, from, Len(msg))>>
    ELSE LET end == MatchEnd(msg, i)
         IN  IF end # 0
             THEN <<SubSeq(msg, from, i - 1), SubSeq(msg, i, end)>>
                  \o Re_split(msg, end + 1, end + 1)
             ELSE Re_split(msg, from, i + 1)

\* str.replace(c, "\\" + c) (line 122).
RECURSIVE Replace(_, _)
Replace(part, c) ==
    IF part = <<>> THEN <<>>
    ELSE (IF Head(part) = c THEN <<Backslash, c>> ELSE <<Head(part)>>)
         \o Replace(Tail(part), c)

\* Line 120: the parts that are escaped; part k of the model is part k - 1
\* of the code.
IsTextPartFlippedMutant(k) == (k - 1) % 2 # 0
IsTextPart(k) == (k - 1) % 2 = 0

\* Lines 115-123.
RECURSIVE EscapeParts(_, _)
EscapeParts(parts, k) ==
    IF k > Len(parts) THEN <<>>
    ELSE (IF IsTextPart(k)
          THEN Replace(Replace(Replace(parts[k], Markdown[1]), Markdown[2]),
                       Markdown[3])
          ELSE parts[k])
         \o EscapeParts(parts, k + 1)

\* Line 113: every code fence (three backquotes) gets a backslash before
\* each of its backquotes.
RECURSIVE ReplaceFence(_)
ReplaceFence(msg) ==
    IF msg = <<>> THEN <<>>
    ELSE IF Len(msg) >= 3 /\ SubSeq(msg, 1, 3) = <<Backquote, Backquote, Backquote>>
         THEN <<Backslash, Backquote, Backslash, Backquote, Backslash, Backquote>>
              \o ReplaceFence(SubSeq(msg, 4, Len(msg)))
         ELSE <<Head(msg)>> \o ReplaceFence(Tail(msg))

\* send_chat (lines 109-131); needs_escape is what message_needs_escape
\* answers (it is asked for a normal message only).
Send_chat(message, message_type, needs_escape) ==
    /\ FreshAdapter
    /\ LET clean == IF message_type = "monster" THEN ReplaceFence(message)
                    ELSE EscapeParts(Re_split(message, 1, 1), 1)
           payload == IF message_type = "action"
                      THEN <<"_">> \o clean \o <<"_">>
                      ELSE IF message_type = "monster"
                      THEN <<Backquote, Backquote, Backquote, "\n">> \o clean
                           \o <<"\n", Backquote, Backquote, Backquote>>
                      ELSE IF needs_escape THEN <<"]">> \o clean
                      ELSE clean
       IN  /\ forwarded' = <<[dest |-> "self.channel", payload |-> payload]>>
           /\ cmd' = [NoCmd EXCEPT !.op = "send_chat", !.outcome = "returned",
                         !.arg = [message |-> message,
                                  message_type |-> message_type,
                                  needs_escape |-> needs_escape]]
    /\ UNCHANGED <<server, is_private, sent, granted>>
    /\ UNCHANGED <<is_logged_in, events, backend, idents, lookup>>
    /\ UNCHANGED <<confVars, rateVars, connVars>>

InitSend ==
    /\ command_period = 1
    /\ command_limit = 1
    /\ fake_connect = FALSE
    /\ RateIdle /\ ConnIdle /\ RolesIdle
    /\ ExtIdle

NextSend ==
    /\ FreshAdapter
    /\ \E message \in ChatMessages, message_type \in MessageTypes :
          \E needs_escape \in (IF message_type = "normal" THEN BOOLEAN
                               ELSE {FALSE}) :
              Send_chat(message, message_type, needs_escape)

SpecSend == InitSend /\ [][NextSend]_vars

\* For each position of the message, where the last URL that starts at or
\* before it ends: a URL is a match that starts at no position inside an
\* earlier URL.
UrlCover(msg) ==
    LET cover[i \in 0..Len(msg)] ==
            IF i = 0 THEN 0
            ELSE LET before == cover[i - 1]
                 IN  IF before >= i THEN before
                     ELSE Max({before, MatchEnd(msg, i)})
    IN  [i \in 1..Len(msg) |-> cover[i]]

\* Position p of the message lies in a URL.
InUrl(msg, p) == UrlCover(msg)[p] >= p

\* The message with a backslash before every '*', '_' and '~' that lies
\* outside a URL.
EscapedOutsideUrls(msg) ==
    LET cover == UrlCover(msg)
    IN  Flatten([p \in 1..Len(msg) |->
                    IF cover[p] < p /\ msg[p] \in {"*", "_", "~"}
                    THEN <<Backslash, msg[p]>>
                    ELSE <<msg[p]>>])

\* C11: for a normal or action message, what send_chat sends is the
\* message with every URL unchanged and a backslash before every '*', '_'
\* and '~' outside the URLs (inside the underscores of an action, after
\* the "]" of an escaped normal message).
C11_UrlsKeptMarkdownEscapedElsewhere ==
    (cmd.op = "send_chat" /\ cmd.arg.message_type # "monster") =>
        LET expected == EscapedOutsideUrls(cmd.arg.message)
        IN  /\ Len(forwarded) = 1
            /\ forwarded[1].payload =
                  IF cmd.arg.message_type = "action"
                  THEN <<"_">> \o expected \o <<"_">>
                  ELSE IF cmd.arg.needs_escape THEN <<"]">> \o expected
                  ELSE expected

\* C11 witness: a normal message with an underscore inside a URL and an
\* underscore outside of it has been sent.
C11_Witness ==
    /\ cmd.op = "send_chat"
    /\ cmd.arg.message_type = "normal"
    /\ Len(forwarded) = 1
    /\ \E p, q \in DOMAIN cmd.arg.message :
          /\ cmd.arg.message[p] = "_" /\ InUrl(cmd.arg.message, p)
          /\ cmd.arg.message[q] = "_" /\ ~InUrl(cmd.arg.message, q)

====
